---- MODULE Spec2Model ----
(***************************************************************************)
(* A model of the grep clone of src/src/main.c: the three matchers         *)
(* (strstr, match_pattern, match_with_anchors), line_matches, search_file  *)
(* and main.  C strings are sequences of one-character strings without the *)
(* terminating NUL; `*p == '\0'` is "the index is past the end".           *)
(***************************************************************************)
EXTENDS Integers, Sequences, FiniteSets, TLC

\* The buffer capacity (#define MAX_LINE_LENGTH 1024), scaled down so that
\* the truncation boundary is within the lengths the model enumerates.
MAX_LINE_LENGTH == 4
\* Longest line and pattern handed to the matchers by the harness.
MaxLen == 3
\* Most source names on a command line.
MaxSources == 2
\* Longest prefix and longest suffix a line is extended with.
MaxExt == 1

NL == "\n"
NUL == "NUL"

\* All sequences over S of length 0..n.
Strs(S, n) == UNION {[1..k -> S] : k \in 0..n}

Min(a, b) == IF a < b THEN a ELSE b

\* The C string held in a char buffer: the characters before the first NUL.
RECURSIVE CStr(_)
CStr(buf) ==
    IF buf = <<>> \/ Head(buf) = NUL THEN <<>> ELSE <<Head(buf)>> \o CStr(Tail(buf))

\* <ctype.h> tolower; "A" is the upper-case letter of the model's alphabet.
tolower(c) == IF c = "A" THEN "a" ELSE c

--------------------------------------------------------------------------
(* The matchers *)

RECURSIVE match_from_current_position(_, _, _, _)
RECURSIVE StarLoop(_, _, _, _)

\* main.c:32-42, the loop of the `*` case: pattern index j is already past
\* the `*`; every line offset from i up to and including the end is tried.
StarLoop(line, i, pattern, j) ==
    IF i <= Len(line)
    THEN IF match_from_current_position(line, i, pattern, j)
         THEN TRUE
         ELSE StarLoop(line, i + 1, pattern, j)
    ELSE match_from_current_position(line, i, pattern, j)

\* main.c:20-58; i and j are the 1-based positions of `line` and `pattern`.
match_from_current_position(line, i, pattern, j) ==
    IF j > Len(pattern) THEN TRUE
    ELSE IF pattern[j] = "*" THEN StarLoop(line, i, pattern, j + 1)
    ELSE IF pattern[j] = "?" /\ i <= Len(line)
         THEN match_from_current_position(line, i + 1, pattern, j + 1)
    ELSE IF i <= Len(line) /\ pattern[j] = line[i]
         THEN match_from_current_position(line, i + 1, pattern, j + 1)
    ELSE FALSE

\* main.c:69-76, the loop over the starting offsets: while (*line).
RECURSIVE PatternLoop(_, _, _)
PatternLoop(line, i, pattern) ==
    IF i <= Len(line)
    THEN IF match_from_current_position(line, i, pattern, 1)
         THEN TRUE
         ELSE PatternLoop(line, i + 1, pattern)
    ELSE FALSE

\* A wildcard matcher without the test for the empty pattern.
match_pattern_NoEmptyCase(line, pattern) == PatternLoop(line, 1, pattern)

\* A wildcard matcher that tries the start of the line only.
match_pattern_AtStartOnly(line, pattern) ==
    IF Len(pattern) = 0 THEN TRUE
    ELSE match_from_current_position(line, 1, pattern, 1)

\* main.c:65-77
match_pattern(line, pattern) ==
    IF Len(pattern) = 0 THEN TRUE ELSE PatternLoop(line, 1, pattern)

\* <string.h> strstr(haystack, needle) != NULL: scan the offsets in order.
RECURSIVE StrstrFrom(_, _, _)
StrstrFrom(haystack, needle, i) ==
    IF i + Len(needle) > Len(haystack) THEN FALSE
    ELSE IF \A k \in 1..Len(needle) : haystack[i + k] = needle[k] THEN TRUE
    ELSE StrstrFrom(haystack, needle, i + 1)

\* A strstr that only looks at offset 0.
strstr_AtStartOnly(haystack, needle) ==
    /\ Len(needle) <= Len(haystack)
    /\ \A k \in 1..Len(needle) : haystack[k] = needle[k]

strstr(haystack, needle) == StrstrFrom(haystack, needle, 0)

\* A `^` case that looks for the remainder anywhere in the line.
CaretCase_Unanchored(line, pattern) == strstr(line, Tail(pattern))

\* A `^` case that drops a trailing `$` from the remainder.
CaretCase_DollarDropped(line, pattern) ==
    LET sub == IF Len(pattern) > 1 /\ pattern[Len(pattern)] = "$"
               THEN SubSeq(pattern, 2, Len(pattern) - 1)
               ELSE Tail(pattern)
    IN  Len(sub) <= Len(line) /\ \A i \in 1..Len(sub) : sub[i] = line[i]

\* main.c:90-110: the pattern starts with `^`.
CaretCase(line, pattern) ==
    LET subpattern_len == Len(pattern) - 1
    IN  IF Len(line) < subpattern_len THEN FALSE
        ELSE \A i \in 0..(subpattern_len - 1) : pattern[i + 2] = line[i + 1]

\* A `$` case that compares with the newline in place.
DollarCase_NewlineKept(line, pattern) ==
    LET subpattern_len == Len(pattern) - 1
    IN  IF Len(line) < subpattern_len THEN FALSE
        ELSE \A i \in 0..(subpattern_len - 1) :
                 pattern[i + 1] = line[Len(line) - subpattern_len + i + 1]

\* main.c:113-141: the pattern ends with `$`.
DollarCase(line, pattern) ==
    LET subpattern_len == Len(pattern) - 1
        effective_line_len ==
            IF Len(line) > 0 /\ line[Len(line)] = NL
            THEN Len(line) - 1 ELSE Len(line)
    IN  IF effective_line_len < subpattern_len THEN FALSE
        ELSE LET line_end == effective_line_len - subpattern_len
             IN  \A i \in 0..(subpattern_len - 1) :
                     pattern[i + 1] = line[line_end + i + 1]

\* An anchor matcher that fails on a pattern without an anchor.
match_with_anchors_NoFallback(line, pattern) ==
    LET pattern_len == Len(pattern)
    IN  IF pattern_len > 0 /\ pattern[1] = "^" THEN CaretCase(line, pattern)
        ELSE IF pattern_len > 0 /\ pattern[pattern_len] = "$"
        THEN DollarCase(line, pattern)
        ELSE FALSE

\* main.c:84-145
match_with_anchors(line, pattern) ==
    LET pattern_len == Len(pattern)
    IN  IF pattern_len > 0 /\ pattern[1] = "^" THEN CaretCase(line, pattern)
        ELSE IF pattern_len > 0 /\ pattern[pattern_len] = "$"
        THEN DollarCase(line, pattern)
        ELSE strstr(line, pattern)

\* A folded copy of the whole string, however long.
FoldCopy_Whole(s) == [i \in 1..Len(s) |-> tolower(s[i])]

\* main.c:158-172: the folded copy, cut at MAX_LINE_LENGTH - 1 characters.
FoldCopy(s) ==
    [i \in 1..Min(Len(s), MAX_LINE_LENGTH - 1) |-> tolower(s[i])]

\* main.c:175-176: strcpy into a buffer of MAX_LINE_LENGTH bytes writes past
\* its end when the string and its terminator do not fit.
Overflows(line, pattern, opts) ==
    /\ ~opts.ignore_case
    /\ (Len(line) >= MAX_LINE_LENGTH \/ Len(pattern) >= MAX_LINE_LENGTH)

\* A pattern copy that is never folded.
pattern_copy_NotFolded(pattern, opts) == pattern

\* main.c:155-177
line_copy(line, opts) == IF opts.ignore_case THEN FoldCopy(line) ELSE line
pattern_copy(pattern, opts) == IF opts.ignore_case THEN FoldCopy(pattern) ELSE pattern

\* A dispatch that tests the wildcard flag first.
ModeMatch_WildcardFirst(line, pattern, opts) ==
    IF opts.use_wildcards THEN match_pattern(line, pattern)
    ELSE IF opts.use_anchors THEN match_with_anchors(line, pattern)
    ELSE strstr(line, pattern)

\* main.c:179-190: the mode dispatch.
ModeMatch(line, pattern, opts) ==
    IF opts.use_anchors THEN match_with_anchors(line, pattern)
    ELSE IF opts.use_wildcards THEN match_pattern(line, pattern)
    ELSE strstr(line, pattern)

\* A line_matches that forgets the inversion of main.c:193.
line_matches_NoInvert(line, pattern, opts) ==
    ModeMatch(line_copy(line, opts), pattern_copy(pattern, opts), opts)

\* main.c:150-194, for arguments that fit the buffers.
line_matches(line, pattern, opts) ==
    LET match == ModeMatch(line_copy(line, opts), pattern_copy(pattern, opts), opts)
    IN  IF opts.invert_match THEN ~match ELSE match

\* The results a call of line_matches can give: past the buffers the
\* behaviour is undefined and either result may come back.
line_matches_results(line, pattern, opts) ==
    IF Overflows(line, pattern, opts) THEN BOOLEAN
    ELSE {line_matches(line, pattern, opts)}

Options ==
    [ignore_case : BOOLEAN, line_number : BOOLEAN, count_only : BOOLEAN,
     invert_match : BOOLEAN, use_wildcards : BOOLEAN, use_anchors : BOOLEAN]

NoOptions ==
    [ignore_case |-> FALSE, line_number |-> FALSE, count_only |-> FALSE,
     invert_match |-> FALSE, use_wildcards |-> FALSE, use_anchors |-> FALSE]

--------------------------------------------------------------------------
(* The command line and the environment *)

F1 == <<"f", "1">>
F2 == <<"f", "2">>
Missing == <<"n", "o">>
Dash == <<"-">>
StdinName == <<"s", "t", "d", "i", "n">>

\* The named files that fopen can open, with their bytes.  The first line of
\* F2 is longer than the buffer; the last line of F1 has no newline.
FS ==
    (F1 :> <<"a", "b", NL, "b", NL, "A">>) @@
    (F2 :> <<"b", "a", "a", "b", NL, NL>>)

SourceNames == {F1, F2, Missing, Dash, StdinName}
\* What standard input may hold; the last begins with a line that starts
\* with a NUL byte.
StdinInputs == {<<>>, <<"a", NL, "b", "a">>, <<NUL, "a", NL, "a", NL>>}
ProgPatterns == {<<>>, <<"a">>, <<"^", "b">>, <<"b", "$">>, <<"a", "?">>, <<"*">>}
OptLetters == {"i", "n", "c", "v", "w", "a"}
\* A letter that is not in the option string "incvwah".
UnknownLetter == "x"

VARIABLES
    argv_stop,      \* what ends getopt's loop: "none", "h" (-h) or "bad" (unknown flag)
    argv_flags,     \* the recognized flags getopt returns before that
    argv_rest,      \* the option letters after that, which getopt never reaches
    argv_args,      \* the non-option arguments: the pattern, then the source names
    stdin_data,     \* the bytes on standard input
    options,        \* main's grep_options
    pattern,        \* main's pattern
    print_filename, \* main's print_filename, as passed to search_file
    idx,            \* main's loop index over the source names, 1-based
    pc,             \* where the program is
    file,           \* search_file's FILE *: "none", "stdin" or "named"
    open_named,     \* the number of named files that are open
    fpos,           \* bytes read from the open named file
    stdin_pos,      \* bytes read from standard input
    line,           \* search_file's line buffer, as fgets left it
    line_number,    \* search_file's line_number
    match_count,    \* search_file's match_count
    match,          \* the result of the last call of line_matches
    out,            \* the bytes written to standard output
    err,            \* the diagnostics written to standard error
    exit_code       \* main's return value, -1 while running

vars ==
    <<argv_stop, argv_flags, argv_rest, argv_args, stdin_data, options,
      pattern, print_filename, idx, pc, file, open_named, fpos, stdin_pos, line,
      line_number, match_count, match, out, err, exit_code>>

Digit(n) ==
    CASE n = 0 -> "0" [] n = 1 -> "1" [] n = 2 -> "2" [] n = 3 -> "3"
      [] n = 4 -> "4" [] n = 5 -> "5" [] n = 6 -> "6" [] n = 7 -> "7"
      [] n = 8 -> "8" [] n = 9 -> "9"

\* printf("%d", n) for n >= 0.
RECURSIVE itoa(_)
itoa(n) == IF n < 10 THEN <<Digit(n)>> ELSE itoa(n \div 10) \o <<Digit(n % 10)>>

\* main.c:293-322: the options the recognized flags set.
ParseFlags(flags) ==
    [ignore_case |-> "i" \in flags, line_number |-> "n" \in flags,
     count_only |-> "c" \in flags, invert_match |-> "v" \in flags,
     use_wildcards |-> "w" \in flags, use_anchors |-> "a" \in flags]

\* main.c:335-355: the source names after the pattern.
Files == IF argv_args = <<>> THEN <<>> ELSE Tail(argv_args)

\* main.c:337,346-354: the filename main passes to search_file for source k.
CallName(k) ==
    IF Files = <<>> THEN StdinName
    ELSE IF Files[k] = Dash THEN StdinName
    ELSE Files[k]

\* main.c:335,344: the number of calls of search_file.
NumCalls == IF Files = <<>> THEN 1 ELSE Len(Files)

\* fgets(line, MAX_LINE_LENGTH, file): the number of bytes stored when n are
\* stored so far, reading `data` after its first `pos` bytes.
RECURSIVE FgetsLen(_, _, _)
FgetsLen(data, pos, n) ==
    IF n = MAX_LINE_LENGTH - 1 \/ pos + n >= Len(data) THEN n
    ELSE IF data[pos + n + 1] = NL THEN n + 1
    ELSE FgetsLen(data, pos, n + 1)

\* The bytes fgets stores; <<>> stands for its NULL at end of file.
fgets(data, pos) == SubSeq(data, pos + 1, pos + FgetsLen(data, pos, 0))

\* The stream search_file reads, and how far it has read.
StreamData == IF file = "stdin" THEN stdin_data ELSE FS[CallName(idx)]
StreamPos == IF file = "stdin" THEN stdin_pos ELSE fpos

\* main.c:231-234,254-257
NamePrefix(filename, pf) == IF pf THEN filename \o <<":">> ELSE <<>>

\* A record numbered with the count of the lines before it.
Record_ZeroBased(filename, pf, opts, n, text) ==
    NamePrefix(filename, pf)
    \o (IF opts.line_number THEN itoa(n - 1) \o <<":">> ELSE <<>>)
    \o text
    \o (IF text # <<>> /\ text[Len(text)] # NL THEN <<NL>> ELSE <<>>)

\* main.c:229-247: the bytes printed for a selected line.
Record(filename, pf, opts, n, text) ==
    NamePrefix(filename, pf)
    \o (IF opts.line_number THEN itoa(n) \o <<":">> ELSE <<>>)
    \o text
    \o (IF text # <<>> /\ text[Len(text)] # NL THEN <<NL>> ELSE <<>>)

\* A count that is printed with a line-number segment, as a line is.
CountRecord_Numbered(filename, pf, opts, count) ==
    IF opts.count_only
    THEN NamePrefix(filename, pf)
         \o (IF opts.line_number THEN itoa(count) \o <<":">> ELSE <<>>)
         \o itoa(count) \o <<NL>>
    ELSE <<>>

\* main.c:252-259: the bytes printed when the source is exhausted.
CountRecord(filename, pf, opts, count) ==
    IF opts.count_only THEN NamePrefix(filename, pf) \o itoa(count) \o <<NL>> ELSE <<>>

\* A search_file that prints every line it reads.
ShouldPrint_EveryLine(m, opts) == ~opts.count_only

\* main.c:225-229: a line is printed when it is selected and counts are not asked for.
ShouldPrint(m, opts) == m /\ ~opts.count_only

--------------------------------------------------------------------------
(* The program: main and search_file *)

\* The command lines of the model: the full runs, and the runs getopt ends.
ArgLists ==
    {<<>>} \cup
    {<<p>> \o fs : p \in ProgPatterns, fs \in Strs(SourceNames, MaxSources)}

Init ==
    /\ \/ /\ argv_stop = "none"
          /\ argv_flags \in SUBSET OptLetters
          /\ argv_rest = {}
          /\ argv_args \in ArgLists
       \/ /\ argv_stop \in {"h", "bad"}
          /\ argv_flags \in {{}, {"c"}}
          /\ argv_rest \in SUBSET {"h", "c", UnknownLetter}
          /\ argv_args \in {<<>>, <<<<"a">>>>, <<<<"a">>, F1>>}
    /\ stdin_data \in StdinInputs
    /\ options = NoOptions
    /\ pattern = <<>>
    /\ print_filename = FALSE
    /\ idx = 1
    /\ pc = "main"
    /\ file = "none"
    /\ open_named = 0
    /\ fpos = 0
    /\ stdin_pos = 0
    /\ line = <<>>
    /\ line_number = 0
    /\ match_count = 0
    /\ match = FALSE
    /\ out = <<>>
    /\ err = <<>>
    /\ exit_code = -1

\* Names are printed as soon as one file is given.
MoreThanOneFile_AtLeastOne == Len(Files) > 0

\* main.c:341: bool print_filename = (argc - optind > 1), optind past the pattern.
MoreThanOneFile == Len(Files) > 1

\* A help request that exits with failure.
HelpCase_ExitFailure ==
    /\ err' = err \o <<[msg |-> "usage", name |-> <<>>]>>
    /\ exit_code' = 1
    /\ pc' = "done"
    /\ options' = ParseFlags(argv_flags)
    /\ UNCHANGED <<pattern, print_filename>>

\* main.c:315-317: case 'h': print_usage and return EXIT_SUCCESS.
HelpCase ==
    /\ err' = err \o <<[msg |-> "usage", name |-> <<>>]>>
    /\ exit_code' = 0
    /\ pc' = "done"
    /\ options' = ParseFlags(argv_flags)
    /\ UNCHANGED <<pattern, print_filename>>

\* A usage error that exits with success.
UsageError_ExitSuccess(msg) ==
    /\ err' = err \o <<[msg |-> msg, name |-> <<>>], [msg |-> "usage", name |-> <<>>]>>
    /\ exit_code' = 0
    /\ pc' = "done"
    /\ options' = ParseFlags(argv_flags)
    /\ UNCHANGED <<pattern, print_filename>>

\* main.c:318-320,325-330: a message (getopt's for an unknown flag, main's for
\* a missing pattern), print_usage and return EXIT_FAILURE.
UsageError(msg) ==
    /\ err' = err \o <<[msg |-> msg, name |-> <<>>], [msg |-> "usage", name |-> <<>>]>>
    /\ exit_code' = 1
    /\ pc' = "done"
    /\ options' = ParseFlags(argv_flags)
    /\ UNCHANGED <<pattern, print_filename>>

\* main.c:288-341: option parsing, the pattern, print_filename.
main ==
    /\ pc = "main"
    /\ IF argv_stop = "h" THEN HelpCase
       ELSE IF argv_stop = "bad" THEN UsageError("invalid option")
       ELSE IF argv_args = <<>> THEN UsageError("expected pattern")
       ELSE /\ options' = ParseFlags(argv_flags)
            /\ pattern' = argv_args[1]
            /\ print_filename' = MoreThanOneFile
            /\ pc' = "open"
            /\ UNCHANGED <<err, exit_code>>
    /\ UNCHANGED <<argv_stop, argv_flags, argv_rest, argv_args, stdin_data,
                   idx, file,
                   open_named, fpos, stdin_pos, line, line_number, match_count,
                   match, out>>

\* An exit code that reports, as grep(1) does, whether anything was printed.
ReturnToMain_FailureWhenNothingPrinted ==
    IF idx < NumCalls
    THEN idx' = idx + 1 /\ pc' = "open" /\ exit_code' = exit_code
    ELSE idx' = idx /\ pc' = "done" /\ exit_code' = (IF out = <<>> THEN 1 ELSE 0)

\* A main that does not return after the last source.
ReturnToMain_NeverExits ==
    IF idx < NumCalls
    THEN idx' = idx + 1 /\ pc' = "open" /\ exit_code' = exit_code
    ELSE idx' = idx /\ pc' = "wait" /\ exit_code' = exit_code

\* main.c:344-358: search_file has returned; the next source, or the exit.
ReturnToMain ==
    IF idx < NumCalls
    THEN idx' = idx + 1 /\ pc' = "open" /\ exit_code' = exit_code
    ELSE idx' = idx /\ pc' = "done" /\ exit_code' = 0

\* An open failure that ends the run.
OpenFails_Aborts ==
    /\ err' = err \o <<[msg |-> "cannot open", name |-> CallName(idx)]>>
    /\ idx' = idx /\ pc' = "done" /\ exit_code' = 1
    /\ UNCHANGED <<file, open_named, fpos>>

\* main.c:214-218: fopen returned NULL; the diagnostic and the return.
OpenFails ==
    /\ err' = err \o <<[msg |-> "cannot open", name |-> CallName(idx)]>>
    /\ ReturnToMain
    /\ UNCHANGED <<file, open_named, fpos>>

\* Counters that live on from one call of search_file to the next.
NewTally_Static == UNCHANGED <<line_number, match_count>>

\* main.c:203-204: int line_number = 0; int match_count = 0;
NewTally == line_number' = 0 /\ match_count' = 0

\* main.c:199-219: the call of search_file for source idx, up to the open.
search_open ==
    /\ pc = "open"
    /\ NewTally
    /\ IF CallName(idx) = StdinName
       THEN /\ file' = "stdin"
            /\ pc' = "read"
            /\ UNCHANGED <<open_named, fpos, err, idx, exit_code>>
       ELSE IF CallName(idx) \in DOMAIN FS
       THEN /\ file' = "named"
            /\ open_named' = open_named + 1
            /\ fpos' = 0
            /\ pc' = "read"
            /\ UNCHANGED <<err, idx, exit_code>>
       ELSE OpenFails
    /\ UNCHANGED <<argv_stop, argv_flags, argv_rest, argv_args, stdin_data,
                   options, pattern,
                   print_filename, stdin_pos, line, match, out>>

\* A count that goes up with every line read.
CountAfter_EveryLine(m, n) == n + 1

\* main.c:225-227: match_count++ inside if (line_matches(...)).
CountAfter(m, n) == IF m THEN n + 1 ELSE n

\* main.c:221-250: one iteration of the loop, fgets having read a line.
search_line ==
    /\ pc = "read"
    /\ fgets(StreamData, StreamPos) # <<>>
    /\ LET buf == fgets(StreamData, StreamPos)
       IN  /\ line' = buf
           /\ IF file = "stdin"
              THEN stdin_pos' = stdin_pos + Len(buf) /\ fpos' = fpos
              ELSE fpos' = fpos + Len(buf) /\ stdin_pos' = stdin_pos
           /\ line_number' = line_number + 1
           /\ \E m \in line_matches_results(CStr(buf), pattern, options) :
                 /\ match' = m
                 /\ match_count' = CountAfter(m, match_count)
                 /\ out' = IF ShouldPrint(m, options)
                           THEN out \o Record(CallName(idx), print_filename, options,
                                              line_number + 1, CStr(buf))
                           ELSE out
    /\ UNCHANGED <<argv_stop, argv_flags, argv_rest, argv_args, stdin_data,
                   options, pattern,
                   print_filename, idx, pc, file, open_named, err, exit_code>>

\* A return that leaves the file open.
OpenAfterScan_NeverClosed(f, n) == n

\* main.c:261-264: the number of open named files once the scan of stream f
\* is left: fclose unless the stream is standard input.
OpenAfterScan(f, n) == IF f = "stdin" THEN n ELSE n - 1

\* main.c:221,252-265: fgets returns NULL; the count, fclose, the return.
search_eof ==
    /\ pc = "read"
    /\ fgets(StreamData, StreamPos) = <<>>
    /\ out' = out \o CountRecord(CallName(idx), print_filename, options, match_count)
    /\ open_named' = OpenAfterScan(file, open_named)
    /\ file' = "none"
    /\ ReturnToMain
    /\ UNCHANGED <<argv_stop, argv_flags, argv_rest, argv_args, stdin_data,
                   options, pattern,
                   print_filename, fpos, stdin_pos, line, line_number, match_count,
                   match, err>>

Next == main \/ search_open \/ search_line \/ search_eof

Spec == Init /\ [][Next]_vars

\* The flag sets of the runs followed to their end: none, the recursive
\* matcher, counts of inverted matches, numbered folded anchor matches.
FairFlags == {{}, {"w"}, {"c", "v"}, {"i", "n", "a"}}

FairInit == Init /\ argv_flags \in FairFlags

\* The program is one thread of control: while a step is possible, one is taken.
FairSpec == FairInit /\ [][Next]_vars /\ WF_vars(Next)

--------------------------------------------------------------------------
(* The matcher harness: one call of line_matches on enumerated arguments *)

MatchOptions(i, v, w, a) ==
    [ignore_case |-> i, line_number |-> FALSE, count_only |-> FALSE,
     invert_match |-> v, use_wildcards |-> w, use_anchors |-> a]

\* Wildcard mode: lines as fgets gives them, patterns with `*` and `?`.
GlobInputs ==
    /\ line \in Strs({"a", "b", NL}, MaxLen)
    /\ pattern \in Strs({"a", "b", "*", "?"}, MaxLen)
    /\ options \in {MatchOptions(FALSE, v, TRUE, FALSE) : v \in BOOLEAN}

\* Anchor mode: patterns with `^` and `$`.
AnchorInputs ==
    /\ line \in Strs({"a", "b", "$", NL}, MaxLen)
    /\ pattern \in Strs({"a", "b", "^", "$"}, MaxLen)
    /\ options \in {MatchOptions(FALSE, v, FALSE, TRUE) : v \in BOOLEAN}

\* Every combination of the two mode flags, metacharacters of both modes.
MixedInputs ==
    /\ line \in Strs({"a", "^", "$"}, MaxLen)
    /\ pattern \in Strs({"a", "^", "$", "*"}, MaxLen)
    /\ options \in {MatchOptions(FALSE, FALSE, w, a) : w, a \in BOOLEAN}

\* Letters of both cases, every mode, with and without ignore_case.
CaseInputs ==
    /\ line \in Strs({"a", "A", NL}, MaxLen)
    /\ pattern \in Strs({"a", "A", "^", "$", "?"}, MaxLen)
    /\ options \in {MatchOptions(i, FALSE, w, a) : i, w, a \in BOOLEAN}

MatchInit ==
    /\ GlobInputs \/ AnchorInputs \/ MixedInputs \/ CaseInputs
    /\ pc = "call"
    /\ match = FALSE
    /\ argv_stop = "none"
    /\ argv_flags = {}
    /\ argv_rest = {}
    /\ argv_args = <<>>
    /\ stdin_data = <<>>
    /\ print_filename = FALSE
    /\ idx = 1
    /\ file = "none"
    /\ open_named = 0
    /\ fpos = 0
    /\ stdin_pos = 0
    /\ line_number = 0
    /\ match_count = 0
    /\ out = <<>>
    /\ err = <<>>
    /\ exit_code = -1

\* main.c:225: the call line_matches(line, pattern, opts) and its return.
call_line_matches ==
    /\ pc = "call"
    /\ match' \in line_matches_results(line, pattern, options)
    /\ pc' = "ret"
    /\ UNCHANGED <<argv_stop, argv_flags, argv_rest, argv_args, stdin_data,
                   options, pattern,
                   print_filename, idx, file, open_named, fpos, stdin_pos, line,
                   line_number, match_count, out, err, exit_code>>

MatchSpec == MatchInit /\ [][call_line_matches]_vars

\* Lines and patterns up to two characters longer than the buffers hold.
LongInputs ==
    /\ line \in Strs({"a", "b"}, MAX_LINE_LENGTH + 1)
    /\ pattern \in Strs({"a", "b"}, MAX_LINE_LENGTH + 1)
    /\ options \in {MatchOptions(i, FALSE, w, FALSE) : i, w \in BOOLEAN}

LongInit ==
    /\ LongInputs
    /\ pc = "call"
    /\ match = FALSE
    /\ argv_stop = "none"
    /\ argv_flags = {}
    /\ argv_rest = {}
    /\ argv_args = <<>>
    /\ stdin_data = <<>>
    /\ print_filename = FALSE
    /\ idx = 1
    /\ file = "none"
    /\ open_named = 0
    /\ fpos = 0
    /\ stdin_pos = 0
    /\ line_number = 0
    /\ match_count = 0
    /\ out = <<>>
    /\ err = <<>>
    /\ exit_code = -1

\* The harness on arguments that reach and pass the capacity of the buffers.
LongSpec == LongInit /\ [][call_line_matches]_vars

\* main.c:158-176: the bytes written into a copy buffer, terminator
\* included: the folding loop stops at MAX_LINE_LENGTH - 1 characters, strcpy
\* copies the whole string.
BytesWritten(s, opts) ==
    IF opts.ignore_case THEN Min(Len(s), MAX_LINE_LENGTH - 1) + 1 ELSE Len(s) + 1

--------------------------------------------------------------------------
(* Reference notions the properties are stated with *)

\* The lines of a source: what the successive calls of fgets return.
RECURSIVE SourceLines(_, _)
SourceLines(data, pos) ==
    IF fgets(data, pos) = <<>> THEN <<>>
    ELSE <<fgets(data, pos)>> \o SourceLines(data, pos + Len(fgets(data, pos)))

\* Whether main got as far as scanning sources.
Scanning ==
    pc \in {"open", "read"} \/ (pc = "done" /\ argv_stop = "none" /\ argv_args # <<>>)

\* The bytes source k holds when its scan starts.  Standard input is a
\* stream: a second scan of it finds it at its end.
SourceBytes(k) ==
    IF CallName(k) = StdinName
    THEN IF \E j \in 1..(k - 1) : CallName(j) = StdinName THEN <<>> ELSE stdin_data
    ELSE IF CallName(k) \in DOMAIN FS THEN FS[CallName(k)]
    ELSE <<>>

\* The bytes of source k read so far.
ConsumedBytes(k) ==
    IF ~Scanning THEN <<>>
    ELSE IF k < idx \/ pc = "done" THEN SourceBytes(k)
    ELSE IF k = idx /\ pc = "read"
         THEN IF file = "stdin"
              THEN SubSeq(SourceBytes(k), 1,
                          stdin_pos - (Len(stdin_data) - Len(SourceBytes(k))))
              ELSE SubSeq(SourceBytes(k), 1, fpos)
    ELSE <<>>

\* The records of the selected lines among `lines`, the first numbered n.
RECURSIVE SelectedRecords(_, _, _)
SelectedRecords(lines, n, k) ==
    IF lines = <<>> THEN <<>>
    ELSE (IF line_matches(CStr(Head(lines)), pattern, options)
          THEN Record(CallName(k), print_filename, options, n, CStr(Head(lines)))
          ELSE <<>>)
         \o SelectedRecords(Tail(lines), n + 1, k)

\* The concatenation over the sources 1..k, in order.
RECURSIVE ExpectedOut(_)
ExpectedOut(k) ==
    IF k = 0 THEN <<>>
    ELSE ExpectedOut(k - 1) \o SelectedRecords(SourceLines(ConsumedBytes(k), 0), 1, k)

\* p occurs in l as a contiguous substring.
IsSubstring(p, l) ==
    \E s \in 0..(Len(l) - Len(p)) : SubSeq(l, s + 1, s + Len(p)) = p

StartsWith(l, x) == Len(x) <= Len(l) /\ SubSeq(l, 1, Len(x)) = x

EndsWith(l, x) == Len(x) <= Len(l) /\ SubSeq(l, Len(l) - Len(x) + 1, Len(l)) = x

\* l without its last character.
Front(l) == SubSeq(l, 1, Len(l) - 1)

\* l with at most one trailing newline removed.
StripNewline(l) == IF l # <<>> /\ l[Len(l)] = NL THEN Front(l) ELSE l

\* ASCII lower-casing of a whole string.
Lower(s) == [i \in 1..Len(s) |-> tolower(s[i])]

\* The glob pattern p consumed against exactly the text t: `*` stands for any
\* run of characters, `?` for one character, any other character for itself.
RECURSIVE GlobExact(_, _)
GlobExact(t, p) ==
    IF p = <<>> THEN t = <<>>
    ELSE IF Head(p) = "*"
    THEN \E k \in 0..Len(t) : GlobExact(SubSeq(t, k + 1, Len(t)), Tail(p))
    ELSE /\ t # <<>>
         /\ Head(p) = "?" \/ Head(p) = Head(t)
         /\ GlobExact(Tail(t), Tail(p))

\* Some offset s in 0..Len(l) from which p is consumed; the match need not
\* reach the end of l.
GlobContains(l, p) ==
    \E s \in 0..Len(l) : \E e \in s..Len(l) : GlobExact(SubSeq(l, s + 1, e), p)

InMode(w, a) ==
    pc = "ret" /\ options.use_wildcards = w /\ options.use_anchors = a

--------------------------------------------------------------------------
(* The claims *)

C2_InvertNegates ==
    pc = "ret" =>
        match = ~line_matches(line, pattern,
                              [options EXCEPT !.invert_match = ~options.invert_match])

\* C2 witness: an inverted wildcard call that selected a line which the
\* pattern does not match.
C2_Witness ==
    /\ InMode(TRUE, FALSE)
    /\ options.invert_match
    /\ pattern = <<"a", "?", "b">>
    /\ line = <<"a", "b", NL>>
    /\ match

\* C3: in literal mode, without inversion, a line matches iff the pattern is
\* a contiguous substring of it (of the folded line, for the folded pattern,
\* under ignore_case); the empty pattern matches every line, the empty line
\* included.
C3_LiteralIsSubstring ==
    /\ InMode(FALSE, FALSE) /\ ~options.invert_match /\ ~options.ignore_case
           => match = IsSubstring(pattern, line)
    /\ InMode(FALSE, FALSE) /\ ~options.invert_match /\ options.ignore_case
           => match = IsSubstring(Lower(pattern), Lower(line))
    /\ InMode(FALSE, FALSE) /\ ~options.invert_match /\ pattern = <<>> => match

\* C3 witness: a literal match in the middle of the line.
C3_Witness ==
    /\ InMode(FALSE, FALSE)
    /\ ~options.invert_match /\ ~options.ignore_case
    /\ pattern = <<"a", "^">>
    /\ line = <<"$", "a", "^">>
    /\ match

\* C4: in wildcard mode the result is true iff from some offset s with
\* 0 <= s <= length(line) the whole pattern can be consumed, `*` standing for
\* any run, `?` for one character, any other character for itself; this for
\* every line, the empty line included, and for patterns made only of `*`.
C4_WildcardIsGlobContainment ==
    InMode(TRUE, FALSE) /\ ~options.invert_match /\ ~options.ignore_case
        => match = GlobContains(line, pattern)

\* What does hold of match_pattern: the same equivalence for every line
\* that is not empty, and for the empty line unless the pattern is a
\* non-empty run of `*`.
C4_HoldsOffTheEmptyLine ==
    InMode(TRUE, FALSE) /\ ~options.invert_match /\ ~options.ignore_case
        /\ (line # <<>> \/ pattern = <<>> \/ \E j \in 1..Len(pattern) : pattern[j] # "*")
        => match = GlobContains(line, pattern)

\* C5: for a line as read (its content, then its newline) a `?` is never
\* satisfied at or after the end of the content: the line is selected iff
\* the pattern can be consumed within the content.
C5_QuestionMarkStopsAtContentEnd ==
    InMode(TRUE, FALSE) /\ ~options.invert_match /\ ~options.ignore_case
        /\ line # <<>> /\ line[Len(line)] = NL
        /\ (\A i \in 1..(Len(line) - 1) : line[i] # NL)
        => match = GlobContains(Front(line), pattern)

\* What does hold: so long as the pattern has no `?`, the terminating
\* newline never changes the result.
C5_HoldsWithoutQuestionMark ==
    InMode(TRUE, FALSE) /\ ~options.invert_match /\ ~options.ignore_case
        /\ line # <<>> /\ line[Len(line)] = NL
        /\ (\A i \in 1..(Len(line) - 1) : line[i] # NL)
        /\ (\A j \in 1..Len(pattern) : pattern[j] # "?")
        => match = GlobContains(Front(line), pattern)

\* The strings the same way under ignore_case and without it.
Folded(s) == IF options.ignore_case THEN Lower(s) ELSE s

\* C6: in anchor mode, for every pattern that starts with `^`, a line
\* matches iff it begins at offset 0 with the whole remainder of the pattern
\* after the `^`, character for character; `^` alone matches every line.
C6_CaretIsPrefix ==
    /\ InMode(FALSE, TRUE) /\ ~options.invert_match
           /\ pattern # <<>> /\ pattern[1] = "^"
           => match = StartsWith(Folded(line), Tail(Folded(pattern)))
    /\ InMode(FALSE, TRUE) /\ ~options.invert_match /\ pattern = <<"^">> => match
    /\ match_with_anchors(<<"a", "b", "c", " ", "d", "e", "f">>, <<"^", "a", "b", "c">>)
    /\ ~match_with_anchors(<<"x", "a", "b", "c", " ", "d", "e", "f">>,
                           <<"^", "a", "b", "c">>)

\* C6 witness: `^b` was tried on a line that holds `b`, but not at offset 0.
C6_Witness ==
    /\ InMode(FALSE, TRUE) /\ ~options.invert_match
    /\ pattern = <<"^", "b">>
    /\ line = <<"a", "b", NL>>
    /\ ~match

\* C7: in anchor mode, for every pattern that does not start with `^` and
\* ends with `$`, a line matches iff the line without at most one trailing
\* newline ends with the pattern without its `$`; so the result is the same
\* for a line with and without its terminating newline.
C7_DollarIsSuffix ==
    /\ InMode(FALSE, TRUE) /\ ~options.invert_match
           /\ pattern # <<>> /\ pattern[1] # "^" /\ pattern[Len(pattern)] = "$"
           => /\ match = EndsWith(StripNewline(Folded(line)), Front(Folded(pattern)))
              /\ (Len(line) + 1 < MAX_LINE_LENGTH /\ (line = <<>> \/ line[Len(line)] # NL))
                     => match = line_matches(line \o <<NL>>, pattern, options)
    /\ match_with_anchors(<<"a", "b", "c", " ", "d", "e", "f", NL>>, <<"d", "e", "f", "$">>)
    /\ match_with_anchors(<<"a", "b", "c", " ", "d", "e", "f">>, <<"d", "e", "f", "$">>)
    /\ ~match_with_anchors(<<"a", "b", "c", " ", "d", "e", "f", "!">>,
                           <<"d", "e", "f", "$">>)

\* C7 witness: `b$` matched a line that ends in b and its newline.
C7_Witness ==
    /\ InMode(FALSE, TRUE) /\ ~options.invert_match
    /\ pattern = <<"b", "$">>
    /\ line = <<"a", "b", NL>>
    /\ match

\* C8 as claimed: in anchor mode a pattern `^X$` selects a line exactly when
\* the pattern `^X` selects it.
C8_DollarIgnoredAfterCaret ==
    InMode(FALSE, TRUE) /\ Len(pattern) >= 2
        /\ pattern[1] = "^" /\ pattern[Len(pattern)] = "$"
        => match = line_matches(line, Front(pattern), options)

\* C8 as amended: only the start-anchor case runs, and the `$` demands
\* neither the end of the line nor full-line equality, but it is compared as
\* an ordinary character of the remainder: `^X$` selects a line exactly
\* when `^X` selects it and the character of the line right after X is `$`.
C8_DollarLiteralAfterCaret ==
    InMode(FALSE, TRUE) /\ Len(pattern) >= 2
        /\ pattern[1] = "^" /\ pattern[Len(pattern)] = "$"
        => match = (options.invert_match #
                       (/\ line_matches(line, Front(pattern),
                                        [options EXCEPT !.invert_match = FALSE])
                        /\ Len(line) >= Len(pattern) - 1
                        /\ line[Len(pattern) - 1] = "$"))

\* C8 witness: `^a$` was tried on the line `a`, which `^a` selects, and on
\* which the `$` finds no `$`.
C8_Witness ==
    /\ InMode(FALSE, TRUE) /\ ~options.invert_match
    /\ pattern = <<"^", "a", "$">>
    /\ line = <<"a">>
    /\ ~match
    /\ line_matches(line, <<"^", "a">>, options)

\* `^` and `$` exchanged with two characters that are special in no mode.
Renamed(s) ==
    [i \in 1..Len(s) |->
        CASE s[i] = "^" -> "x" [] s[i] = "x" -> "^"
          [] s[i] = "$" -> "y" [] s[i] = "y" -> "$"
          [] OTHER -> s[i]]

\* C9: mode priority is anchored > wildcard > literal: with both flags set
\* the result is the result with only the anchor flag set, and with only the
\* wildcard flag set `^` and `$` are ordinary characters (exchanging them
\* with other ordinary characters in line and pattern changes nothing).
C9_AnchorsOverWildcards ==
    /\ InMode(TRUE, TRUE)
           => match = line_matches(line, pattern, [options EXCEPT !.use_wildcards = FALSE])
    /\ InMode(TRUE, FALSE)
           => match = line_matches(Renamed(line), Renamed(pattern), options)

\* C9 witness: both flags set, and the anchored result differs from what
\* wildcard matching gives for the same line and pattern.
C9_Witness ==
    /\ InMode(TRUE, TRUE) /\ ~options.invert_match /\ ~options.ignore_case
    /\ \E j \in 1..Len(pattern) : pattern[j] = "*"
    /\ match # match_pattern(line, pattern)

\* s with the case of its i-th character changed.
CaseFlipped(s, i) ==
    [s EXCEPT ![i] = CASE s[i] = "a" -> "A" [] s[i] = "A" -> "a" [] OTHER -> s[i]]

\* C10: with ignore_case set, in every mode, the result for a line and a
\* pattern within the length cap is the case-sensitive result of the same
\* mode for the lower-cased line and pattern; so changing the case of any
\* letter of the line or of the pattern does not change it.
C10_IgnoreCaseIsLowercasing ==
    pc = "ret" /\ options.ignore_case
        /\ Len(line) < MAX_LINE_LENGTH /\ Len(pattern) < MAX_LINE_LENGTH
        => /\ match = line_matches(Lower(line), Lower(pattern),
                                   [options EXCEPT !.ignore_case = FALSE])
           /\ \A i \in 1..Len(line) :
                  match = line_matches(CaseFlipped(line, i), pattern, options)
           /\ \A j \in 1..Len(pattern) :
                  match = line_matches(line, CaseFlipped(pattern, j), options)

\* C10 witness: pattern `A` selected the line `ba` under ignore_case, which
\* it does not without it.
C10_Witness ==
    /\ InMode(FALSE, FALSE) /\ options.ignore_case /\ ~options.invert_match
    /\ pattern = <<"A">>
    /\ line = <<"a", "a", NL>>
    /\ match
    /\ ~line_matches(line, pattern, [options EXCEPT !.ignore_case = FALSE])

\* Source k can be scanned: it is standard input or a file that opens.
Openable(k) == CallName(k) = StdinName \/ CallName(k) \in DOMAIN FS

\* The scan of source k is over.
Exhausted(k) == Scanning /\ (k < idx \/ pc = "done")

\* How many of `lines` line_matches selects, inversion included.
RECURSIVE SelectedCount(_)
SelectedCount(lines) ==
    IF lines = <<>> THEN 0
    ELSE (IF line_matches(CStr(Head(lines)), pattern, options) THEN 1 ELSE 0)
         + SelectedCount(Tail(lines))

\* One count per scanned source among 1..k whose scan is over: the source
\* name when names are printed, the count in decimal, a newline.
RECURSIVE ExpectedCounts(_)
ExpectedCounts(k) ==
    IF k = 0 THEN <<>>
    ELSE ExpectedCounts(k - 1)
         \o (IF Exhausted(k) /\ Openable(k)
             THEN (IF print_filename THEN CallName(k) \o <<":">> ELSE <<>>)
                  \o itoa(SelectedCount(SourceLines(SourceBytes(k), 0)))
                  \o <<NL>>
             ELSE <<>>)

NameSegment(k, several) == IF several THEN CallName(k) \o <<":">> ELSE <<>>

\* The records of the selected lines among `lines`, the first numbered n,
\* each with the name segment iff `several`.
RECURSIVE PrefixedRecords(_, _, _, _)
PrefixedRecords(lines, n, k, several) ==
    IF lines = <<>> THEN <<>>
    ELSE (IF line_matches(CStr(Head(lines)), pattern, options)
          THEN NameSegment(k, several)
               \o Record(CallName(k), FALSE, options, n, CStr(Head(lines)))
          ELSE <<>>)
         \o PrefixedRecords(Tail(lines), n + 1, k, several)

\* Everything written for the sources 1..k so far, per-line records or
\* counts, each record with the name segment iff `several`.
RECURSIVE PrefixedOut(_, _)
PrefixedOut(k, several) ==
    IF k = 0 THEN <<>>
    ELSE PrefixedOut(k - 1, several)
         \o (IF options.count_only
             THEN IF Exhausted(k) /\ Openable(k)
                  THEN NameSegment(k, several)
                       \o itoa(SelectedCount(SourceLines(SourceBytes(k), 0)))
                       \o <<NL>>
                  ELSE <<>>
             ELSE PrefixedRecords(SourceLines(ConsumedBytes(k), 0), 1, k, several))

\* C12: every record of a run, per-line record or count, begins with the
\* name of its source and a colon iff more than one source name follows the
\* pattern on the command line; with one name or none, no record does.
C12_NameIffSeveralSources ==
    Scanning => out = PrefixedOut(NumCalls, Len(Files) > 1)

\* C12 witness: `grep a f1 no` has finished; two names were given, one file
\* was scanned, and its record carries the name.
C12_Witness ==
    /\ pc = "done"
    /\ argv_flags = {}
    /\ argv_args = <<<<"a">>, F1, Missing>>
    /\ out = <<"f", "1", ":", "a", "b", NL>>

\* The step of search_file that prints the line just read: the line is
\* selected and counts are not asked for.
PrintsLine ==
    pc = "read" /\ line_number' = line_number + 1 /\ match' /\ ~options.count_only

\* What a step appends to standard output.
Written == SubSeq(out', Len(out) + 1, Len(out'))

\* C13: every per-line record is the name of the source and a colon iff
\* names are printed, then the line number and a colon iff line numbers are
\* asked for, then the content of the line exactly as it was read from the
\* source (the bytes fgets stored, not the folded copy), then at most the
\* newline that ends the record.
C13_RecordHoldsLineAsRead ==
    [][PrintsLine =>
          \E nl \in {<<>>, <<NL>>} :
              Written = (IF print_filename THEN CallName(idx) \o <<":">> ELSE <<>>)
                        \o (IF options.line_number
                            THEN itoa(line_number') \o <<":">> ELSE <<>>)
                        \o line' \o nl]_vars

\* C14: every per-line record ends with a newline and holds no other one,
\* whether the line read ended with a newline or not.
C14_RecordEndsWithOneNewline ==
    [][PrintsLine =>
          /\ Written # <<>>
          /\ Written[Len(Written)] = NL
          /\ \A i \in 1..(Len(Written) - 1) : Written[i] # NL]_vars

\* The position in source k of the line read last: the number of lines of
\* the source read so far, a line being what one read of the source returns.
PositionInSource(k) == Len(SourceLines(ConsumedBytes(k), 0))

\* search_file has just printed the line in its buffer.
JustPrinted ==
    pc = "read" /\ line_number > 0 /\ match /\ ~options.count_only

LineStart == StreamPos - Len(line)

\* C16: of a source line longer than the buffer only the first part is
\* handled and the rest is dropped: every line search_file handles begins at
\* the start of its source or right after a newline, so the characters beyond
\* the cap are never matched, printed, counted or numbered as a further line.
C16_ExcessIsDropped ==
    (pc = "read" /\ line_number > 0) =>
        LineStart = 0 \/ StreamData[LineStart] = NL

\* Everything the complete scan of source k writes to standard output;
\* nothing for a source that cannot be opened.
ScanOutput(k) ==
    IF ~Openable(k) THEN <<>>
    ELSE IF options.count_only
    THEN (IF print_filename THEN CallName(k) \o <<":">> ELSE <<>>)
         \o itoa(SelectedCount(SourceLines(SourceBytes(k), 0))) \o <<NL>>
    ELSE SelectedRecords(SourceLines(SourceBytes(k), 0), 1, k)

RECURSIVE AllOutput(_)
AllOutput(k) == IF k = 0 THEN <<>> ELSE AllOutput(k - 1) \o ScanOutput(k)

\* One diagnostic, naming the source, per source among 1..k that cannot be
\* opened, in order.
RECURSIVE Diagnostics(_)
Diagnostics(k) ==
    IF k = 0 THEN <<>>
    ELSE Diagnostics(k - 1)
         \o (IF Openable(k) THEN <<>>
             ELSE <<[msg |-> "cannot open", name |-> CallName(k)]>>)

\* C17: whichever of the sources cannot be opened, when the run is over
\* standard output holds the complete output of every openable source, in
\* the order given, and nothing for the others (no line, no count), and
\* standard error holds exactly one diagnostic per unopenable source, naming
\* it.
C17_OpenFailureSkipsOnlyThatSource ==
    (pc = "done" /\ Scanning) =>
        out = AllOutput(NumCalls) /\ err = Diagnostics(NumCalls)

\* C17 witness: `grep -c a no f1` has finished; the missing file gave one
\* diagnostic and no count, and f1 was scanned after it.
C17_Witness ==
    /\ pc = "done"
    /\ argv_flags = {"c"}
    /\ argv_args = <<<<"a">>, Missing, F1>>
    /\ out = <<"f", "1", ":", "1", NL>>
    /\ err = <<[msg |-> "cannot open", name |-> Missing]>>

\* What the command line holds, whether getopt reaches it or not.
HelpGiven == argv_stop = "h" \/ "h" \in argv_rest
UnknownGiven == argv_stop = "bad" \/ UnknownLetter \in argv_rest

\* No source was opened or read and nothing was printed.
NothingScanned ==
    /\ out = <<>>
    /\ file = "none" /\ open_named = 0
    /\ stdin_pos = 0 /\ fpos = 0 /\ line_number = 0
    /\ \A i \in 1..Len(err) : err[i].msg # "cannot open"

\* The usage text was the last thing written to standard error.
UsagePrinted == err # <<>> /\ err[Len(err)].msg = "usage"

\* C18: a run whose flags are all recognized and that has a pattern exits
\* with code 0, however many lines were selected and however many sources
\* could not be opened.
C18_ExitZeroWhenWellFormed ==
    (pc = "done" /\ ~UnknownGiven /\ argv_args # <<>>) => exit_code = 0

\* C18 witness: `grep a no` has finished with code 0; its only source could
\* not be opened and no line was selected.
C18_Witness ==
    /\ pc = "done"
    /\ argv_stop = "none"
    /\ argv_args = <<<<"a">>, Missing>>
    /\ err = <<[msg |-> "cannot open", name |-> Missing]>>
    /\ out = <<>>
    /\ exit_code = 0

\* C19 as claimed: a run with an unrecognized flag anywhere among its
\* options, or without a pattern, exits with a non-zero code, prints the
\* usage text to standard error, prints nothing to standard output and opens
\* or reads no source.
C19_UsageErrorWheneverMalformed ==
    (pc = "done" /\ (UnknownGiven \/ argv_args = <<>>)) =>
        exit_code # 0 /\ UsagePrinted /\ NothingScanned

\* C19 as amended: a run in which option parsing meets an unrecognized flag
\* before any help flag, or which has no help flag and no pattern, exits with
\* a non-zero code, prints the usage text to standard error, prints nothing
\* to standard output and opens or reads no source.
C19_UsageErrorUnlessHelpFirst ==
    (pc = "done" /\ (argv_stop = "bad" \/ (argv_stop = "none" /\ argv_args = <<>>))) =>
        exit_code # 0 /\ UsagePrinted /\ NothingScanned

\* C19 witness: `grep -c -x a f1` has exited with code 1 after the usage text,
\* f1 untouched.
C19_Witness ==
    /\ pc = "done"
    /\ argv_stop = "bad"
    /\ argv_flags = {"c"}
    /\ argv_args = <<<<"a">>, F1>>
    /\ exit_code = 1
    /\ UsagePrinted
    /\ out = <<>>

\* C20 as claimed: whenever the help flag is among the options, wherever it
\* stands, the run exits with code 0 and scans no source.
C20_HelpWinsInAnyOrder ==
    (pc = "done" /\ HelpGiven) => exit_code = 0 /\ NothingScanned

\* C20 as amended: whenever option parsing reaches the help flag, no
\* unrecognized flag standing before it, the run exits with code 0 and scans
\* no source, whatever flags and arguments accompany it.
C20_HelpWinsWhenReached ==
    (pc = "done" /\ argv_stop = "h") => exit_code = 0 /\ NothingScanned

\* C20 witness: `grep -c -h -x a f1` has exited with code 0, the unrecognized
\* flag after the help flag never looked at, f1 untouched.
C20_Witness ==
    /\ pc = "done"
    /\ argv_stop = "h"
    /\ argv_flags = {"c"}
    /\ UnknownLetter \in argv_rest
    /\ argv_args = <<<<"a">>, F1>>
    /\ exit_code = 0
    /\ out = <<>>

\* C21: the stream a scan reads is standard input exactly when no source
\* name was given or the name of the source is the single character `-`;
\* under every other name the scan reads a named file that was opened.
C21_StdinOnlyForDashOrNoName ==
    pc = "read" => (file = "stdin" <=> (Files = <<>> \/ Files[idx] = Dash))

\* C22: open_named counts the successful fopen calls minus the fclose calls.
\* It is 1 exactly while a named file is being scanned and 0 otherwise: a
\* file is closed once when its scan is left, before the next source is
\* opened and before the exit; two files are never open together; a failed
\* open leaves nothing open; a scan of standard input closes nothing.
C22_OpenFilesAreClosedOnce ==
    /\ open_named = (IF file = "named" THEN 1 ELSE 0)
    /\ (file # "none") <=> (pc = "read")

\* C22 witness: `grep a f1 f2` is about to open f2; f1 was scanned to its end
\* and is closed.
C22_Witness ==
    /\ pc = "open"
    /\ idx = 2
    /\ argv_args = <<<<"a">>, F1, F2>>
    /\ out = <<"f", "1", ":", "a", "b", NL>>
    /\ open_named = 0

\* C23: during the scan of a source the line number is the number of lines
\* read from that source and the match count is the number of those that were
\* selected: both are 0 when the scan starts, and neither depends on what the
\* sources before held.
C23_TallyIsPerSource ==
    pc = "read" =>
        /\ line_number = PositionInSource(idx)
        /\ match_count = SelectedCount(SourceLines(ConsumedBytes(idx), 0))

\* C23 witness: `grep a f1 f2` starts the scan of f2 with both counters at 0,
\* after a scan of f1 that selected a line.
C23_Witness ==
    /\ pc = "read"
    /\ idx = 2
    /\ argv_args = <<<<"a">>, F1, F2>>
    /\ out = <<"f", "1", ":", "a", "b", NL>>
    /\ fpos = 0
    /\ line_number = 0
    /\ match_count = 0

\* C24: whatever the lengths of the line and of the pattern and whether
\* ignore_case is set or not, the copy of each that line_matches stores takes
\* at most MAX_LINE_LENGTH bytes, terminator included.
C24_CopiesFitTheBuffers ==
    pc = "ret" =>
        /\ BytesWritten(line, options) <= MAX_LINE_LENGTH
        /\ BytesWritten(pattern, options) <= MAX_LINE_LENGTH

\* The first MAX_LINE_LENGTH - 1 characters of s.
CapPrefix(s) == SubSeq(s, 1, Min(Len(s), MAX_LINE_LENGTH - 1))

\* C25: with ignore_case set the result for a line and a pattern is the
\* result for their first MAX_LINE_LENGTH - 1 characters: what lies beyond
\* takes no part, so lines (or patterns) that agree on that prefix give the
\* same result.
C25_ExcessDroppedWhenFolding ==
    (pc = "ret" /\ options.ignore_case) =>
        match = line_matches(CapPrefix(line), CapPrefix(pattern), options)

\* C25 witness: with ignore_case, the pattern `aaab`, one character longer
\* than the cap, matched the line `aaa`, which does not hold it.
C25_Witness ==
    /\ pc = "ret"
    /\ options.ignore_case
    /\ ~options.use_wildcards
    /\ Len(pattern) = MAX_LINE_LENGTH
    /\ pattern = <<"a", "a", "a", "b">>
    /\ line = <<"a", "a", "a">>
    /\ match

\* The pattern has no anchor: it neither starts with `^` nor ends with `$`.
Unanchored(p) == p = <<>> \/ (p[1] # "^" /\ p[Len(p)] # "$")

\* C26: with use_anchors set and a pattern that neither starts with `^` nor
\* ends with `$`, the empty pattern included, the result is the one literal
\* mode gives for the same line, pattern and other flags.
C26_NoAnchorIsLiteral ==
    (pc = "ret" /\ options.use_anchors /\ Unanchored(pattern)) =>
        match = line_matches(line, pattern,
                             [options EXCEPT !.use_anchors = FALSE,
                                             !.use_wildcards = FALSE])

\* C26 witness: in anchor mode the pattern `$a`, whose `$` is not at its end,
\* matched the line `a$a` that holds it literally.
C26_Witness ==
    /\ pc = "ret"
    /\ options.use_anchors
    /\ pattern = <<"$", "a">>
    /\ line = <<"a", "$", "a">>
    /\ match

\* How many of `lines` a scan under the options opts selects.
RECURSIVE SelectedCountUnder(_, _)
SelectedCountUnder(lines, opts) ==
    IF lines = <<>> THEN 0
    ELSE (IF line_matches(CStr(Head(lines)), pattern, opts) THEN 1 ELSE 0)
         + SelectedCountUnder(Tail(lines), opts)

\* The options of the run with invert_match the other way round.
InvertFlipped == [options EXCEPT !.invert_match = ~options.invert_match]

\* C27: at every moment of a scan the match count, plus the match count a
\* scan of the same lines with invert_match the other way round has, is the
\* number of lines read from the source; and the match count is never above
\* the line number.
C27_InvertedCountsAddUp ==
    pc = "read" =>
        /\ match_count
             + SelectedCountUnder(SourceLines(ConsumedBytes(idx), 0), InvertFlipped)
           = line_number
        /\ match_count <= line_number

\* C27 witness: `grep -v a f1` has read the three lines of f1 and selected
\* the two without `a`; without -v the scan selects the remaining one.
C27_Witness ==
    /\ pc = "read"
    /\ argv_flags = {"v"}
    /\ argv_args = <<<<"a">>, F1>>
    /\ line_number = 3
    /\ match_count = 2
    /\ SelectedCountUnder(SourceLines(FS[F1], 0), InvertFlipped) = 1

\* The prefixes and suffixes a line is extended with.
Extensions == Strs({"a", "b", NL}, MaxExt)

\* C28: in wildcard mode a pattern that matches a line matches every line
\* obtained by putting characters before and after it.
C28_WildcardMonotone ==
    (InMode(TRUE, FALSE) /\ ~options.invert_match /\ ~options.ignore_case /\ match) =>
        \A X \in Extensions, Y \in Extensions :
            match_pattern(X \o line \o Y, pattern)

\* C28 witness: `a?b` matched `aab`, and matches `baab` followed by a newline.
C28_Witness ==
    /\ InMode(TRUE, FALSE)
    /\ ~options.invert_match
    /\ pattern = <<"a", "?", "b">>
    /\ line = <<"a", "a", "b">>
    /\ match
    /\ match_pattern(<<"b">> \o line \o <<NL>>, pattern)

\* The pattern holds no wildcard.
NoWildcard(p) == \A i \in 1..Len(p) : p[i] \notin {"*", "?"}

\* C29: for a pattern without `*` and `?`, the empty pattern included, and
\* any line, the empty line included, wildcard mode gives the result literal
\* mode gives for the same line, pattern and other flags.
C29_NoWildcardIsLiteral ==
    (InMode(TRUE, FALSE) /\ NoWildcard(pattern)) =>
        match = line_matches(line, pattern, [options EXCEPT !.use_wildcards = FALSE])

\* C29 witness: in wildcard mode the empty pattern matched the empty line.
C29_Witness ==
    /\ InMode(TRUE, FALSE)
    /\ ~options.invert_match
    /\ pattern = <<>>
    /\ line = <<>>
    /\ match

\* C30: every run over the sources of the command line, each of finite
\* length, comes to its exit: every call of the matchers returns, every scan
\* reaches the end of its source, and main returns after the last source.
C30_EveryRunExits == <>(pc = "done")

\* C30 witness: `grep -w '*' f1 f2` has exited after scanning both files with
\* the wildcard matcher.
C30_Witness ==
    /\ pc = "done"
    /\ argv_flags = {"w"}
    /\ argv_args = <<<<"*">>, F1, F2>>
    /\ idx = 2
    /\ line_number = 3
    /\ exit_code = 0

====
